---- MODULE Spec2Model ----
(***************************************************************************)
(* Model of push/pushGitlab.go: GitlabPush, findOrCreateGitlabMR and       *)
(* GetPipelineStatus, run against a GitLab remote that holds merge         *)
(* requests.  One invocation of GitlabPush is split at its external        *)
(* operations (git processes, limiter receives, API calls); other users    *)
(* of the remote act between them.                                         *)
(*                                                                         *)
(* Strings the code inspects are sequences: a commit message is a sequence *)
(* of characters (LF is the newline), an error message a sequence of       *)
(* words.                                                                  *)
(***************************************************************************)
EXTENDS Naturals, Sequences, FiniteSets, TLC

VARIABLES
    remote,        \* the merge requests held by the GitLab server
    rejectsDup,    \* does the server refuse a second open MR for one key
    input,         \* Input of the current GitlabPush invocation
    pc,            \* position of the invocation
    title, body,   \* GitlabPush locals, the desired title and description
    createErr,     \* err of CreateMergeRequest (findOrCreateGitlabMR, line 86)
    existingMRs,   \* result of ListMergeRequests (line 89)
    pr,            \* the MR findOrCreateGitlabMR resolved
    pipeline,      \* result of ListProjectPipelines (GetPipelineStatus, line 124)
    output, err,   \* what GitlabPush returned
    trace,         \* external operations of the current invocation, in order
    repeat,        \* this invocation repeats the previous one, undisturbed
    quiet,         \* no other user touched the remote since the invocation began
    existed        \* an open MR for the key existed when the first of the pair began

vars == <<remote, rejectsDup, input, pc, title, body, createErr, existingMRs,
          pr, pipeline, output, err, trace, repeat, quiet, existed>>

-----------------------------------------------------------------------------
(* Bounds *)
MaxMRs       == 2    \* merge requests the remote ever holds
MaxMsgLen    == 3    \* characters of a commit message
MaxPipelines == 2    \* pipelines a list-pipelines call returns

-----------------------------------------------------------------------------
(* Values *)
LF == "\n"
Chars == {"a", "b", LF}

RECURSIVE SeqsUpTo(_, _)
SeqsUpTo(S, n) ==
    IF n = 0 THEN {<<>>}
    ELSE LET shorter == SeqsUpTo(S, n - 1)
         IN  shorter \cup {Append(s, c) : s \in {t \in shorter : Len(t) = n - 1}, c \in S}

PRBodies       == {<<>>, <<"a">>}
Pipelines      == {[Status |-> "success"], [Status |-> "failed"]}
PipelineLists  == SeqsUpTo(Pipelines, MaxPipelines)
GitOutputs     == {<<"fatal">>}

(* Input values: every commit message up to MaxMsgLen for the title and body
   derivation, three of them for the runs against the remote *)
InputsOver(msgs) ==
    [CommitMessage : msgs, PRBody : PRBodies,
     RepoOwner : {"o"}, RepoName : {"x"}, BranchName : {"b1"}]
DeriveInputs == InputsOver(SeqsUpTo(Chars, MaxMsgLen))
PushInputs   == InputsOver({<<"a">>, <<"a", "a">>, <<"a", LF, "a">>})
NoInput      == [CommitMessage |-> <<>>, PRBody |-> <<>>,
                 RepoOwner |-> "", RepoName |-> "", BranchName |-> ""]

(* merge requests other users open: in another project, from another source
   branch, into another target branch *)
OtherKeys == {[project |-> "o/y", source |-> "b1", target |-> "master"],
              [project |-> "o/x", source |-> "b2", target |-> "master"],
              [project |-> "o/x", source |-> "b1", target |-> "dev"]}

(* error values: nil, or an error with its message *)
NilErr     == [nil |-> TRUE, msg |-> <<>>]
ErrorOf(m) == [nil |-> FALSE, msg |-> m]

AlreadyExists == <<"merge", "request", "already", "exists">>
ConflictMsg   == <<"409", "another", "open", "merge", "request", "already", "exists">>
ServerError   == <<"500", "server", "error">>
NotFound      == <<"404", "not", "found">>
OtherMsgs     == {ServerError, <<"merge", "request", "already">>}
FoundMoreMsg  == <<"unexpected:", "found", "more", "than", "1", "MR", "for", "branch">>
PipelineMsg   == <<"unexpected:", "cannot", "get", "pipeline", "status">>
NoPipeline    == "No pipeline was found"

(* the nil *gitlab.MergeRequest *)
NilMR == [id |-> 0, project |-> "", source |-> "", target |-> "",
          title |-> <<>>, description |-> <<>>, state |-> "none"]

NilOutput == [Success |-> FALSE, PullRequestNumber |-> 0,
              PullRequestCombinedStatus |-> ""]

-----------------------------------------------------------------------------
(* Pure functions of the code *)

\* strings.Index for a one-character separator: first position, 0 when absent
Index(s, sep) ==
    IF \E i \in 1..Len(s) : s[i] = sep
    THEN CHOOSE i \in 1..Len(s) : s[i] = sep /\ \A j \in 1..(i - 1) : s[j] # sep
    ELSE 0

\* strings.SplitN(s, sep, n) for n > 0
RECURSIVE SplitN(_, _, _)
SplitN(s, sep, n) ==
    IF n = 1 \/ Index(s, sep) = 0 THEN <<s>>
    ELSE <<SubSeq(s, 1, Index(s, sep) - 1)>>
         \o SplitN(SubSeq(s, Index(s, sep) + 1, Len(s)), sep, n - 1)

\* strings.Contains
Contains(s, sub) ==
    \E i \in 0..Len(s) : i + Len(sub) <= Len(s) /\ SubSeq(s, i + 1, i + Len(sub)) = sub

\* fmt.Sprintf("%s/%s", owner, name)
Pid(owner, name) == owner \o "/" \o name

-----------------------------------------------------------------------------
(* GitlabPush, lines 43-54: the title and the body passed to the reconciler *)
DeriveTitle(in) ==
    LET splitMsg == SplitN(in.CommitMessage, LF, 2)
    IN  IF Len(splitMsg) = 2 THEN splitMsg[1] ELSE in.CommitMessage

DeriveBody(in) ==
    LET splitMsg == SplitN(in.CommitMessage, LF, 2)
    IN  IF Len(splitMsg) = 2 /\ in.PRBody = <<>> THEN splitMsg[2] ELSE <<>>

head == input.BranchName
base == "master"
pid  == Pid(input.RepoOwner, input.RepoName)

\* line 87 without the strings.Contains test
IsConflictAnyError(e) == ~e.nil

(* findOrCreateGitlabMR, line 87: the create error is a conflict *)
IsConflict(e) == ~e.nil /\ Contains(e.msg, AlreadyExists)

\* line 96 testing for an empty list only
UnexpectedCountEmptyOnly(mrs) == Len(mrs) = 0

(* findOrCreateGitlabMR, line 96 *)
UnexpectedCount(mrs) == Len(mrs) # 1

(* push.different, called at line 101: the two strings differ *)
different(s1, s2) == s1 # s2

(* findOrCreateGitlabMR, line 101 *)
NeedsUpdate(mr, t, b) == different(mr.title, t) \/ different(mr.description, b)

\* lines 125-130 returning the status of the last pipeline of the list
PipelineStatusOfLast(failed, got) ==
    IF failed THEN [status |-> "", err |-> ErrorOf(PipelineMsg)]
    ELSE IF Len(got) = 0 THEN [status |-> NoPipeline, err |-> NilErr]
    ELSE [status |-> got[Len(got)].Status, err |-> NilErr]

(* GetPipelineStatus, lines 125-130: (status, err) for a result of the
   list-pipelines call *)
PipelineStatus(failed, got) ==
    IF failed THEN [status |-> "", err |-> ErrorOf(PipelineMsg)]
    ELSE IF Len(got) = 0 THEN [status |-> NoPipeline, err |-> NilErr]
    ELSE [status |-> got[1].Status, err |-> NilErr]

-----------------------------------------------------------------------------
(* The remote *)
OpenFor(p, src, tgt) ==
    {m \in remote : m.project = p /\ m.source = src /\ m.target = tgt
                    /\ m.state = "opened"}

\* the server accepts a new open MR for the key
Accepts(p, src, tgt) ==
    /\ Cardinality(remote) < MaxMRs
    /\ rejectsDup => OpenFor(p, src, tgt) = {}

NewMR(p, src, tgt, t, d) ==
    [id |-> Cardinality(remote) + 1, project |-> p, source |-> src, target |-> tgt,
     title |-> t, description |-> d, state |-> "opened"]

\* newest first, the server's order
RECURSIVE ById(_)
ById(S) ==
    IF S = {} THEN <<>>
    ELSE LET m == CHOOSE x \in S : \A y \in S : y.id <= x.id
         IN  <<m>> \o ById(S \ {m})

(* ListMergeRequests with the options of lines 89-93: source branch, target
   branch and state, in every project *)
ListMergeRequests(src, tgt, st) ==
    ById({m \in remote : m.source = src /\ m.target = tgt /\ m.state = st})

-----------------------------------------------------------------------------
Init ==
    /\ remote = {}
    /\ rejectsDup \in BOOLEAN
    /\ input = NoInput
    /\ pc = "idle"
    /\ title = <<>> /\ body = <<>>
    /\ createErr = NilErr
    /\ existingMRs = <<>>
    /\ pr = NilMR
    /\ pipeline = <<>>
    /\ output = NilOutput /\ err = NilErr
    /\ trace = <<>>
    /\ repeat = FALSE /\ quiet = TRUE /\ existed = FALSE

\* an external operation, how it ended, and the MR number it was given
Event(op, res, arg) == [op |-> op, res |-> res, arg |-> arg]

\* the locals of a fresh invocation
Enter ==
    /\ pc' = "gitLog"
    /\ title' = <<>> /\ body' = <<>>
    /\ createErr' = NilErr
    /\ existingMRs' = <<>>
    /\ pr' = NilMR
    /\ pipeline' = <<>>
    /\ output' = NilOutput /\ err' = NilErr
    /\ trace' = <<>>
    /\ quiet' = TRUE

\* return Output{Success: false}, e
Fail(e) ==
    /\ pc' = "done"
    /\ output' = NilOutput
    /\ err' = e

(* GitlabPush is called with an Input *)
Call(in) ==
    /\ pc \in {"idle", "done"}
    /\ input' = in
    /\ Enter
    /\ repeat' = FALSE
    /\ existed' = (\E m \in remote :
                      /\ m.project = Pid(in.RepoOwner, in.RepoName)
                      /\ m.source = in.BranchName /\ m.target = base
                      /\ m.state = "opened")
    /\ UNCHANGED <<remote, rejectsDup>>

(* GitlabPush is called again with the Input of the invocation that just
   returned an MR, no other user having touched the remote meanwhile *)
CallAgain ==
    /\ pc = "done" /\ err.nil /\ quiet /\ ~repeat
    /\ Enter
    /\ repeat' = TRUE
    /\ UNCHANGED <<remote, rejectsDup, input, existed>>

\* lines 18-24 without the return at line 23
GitLogErrorIgnored ==
    /\ pc = "gitLog"
    /\ \E res \in {"ok", "err"} : trace' = Append(trace, Event("gitLog", res, 0))
    /\ pc' = "gitPush"
    /\ UNCHANGED <<remote, rejectsDup, input, title, body, createErr, existingMRs,
                   pr, pipeline, output, err, repeat, quiet, existed>>

(* lines 18-24: git log *)
GitLog ==
    /\ pc = "gitLog"
    /\ \/ /\ trace' = Append(trace, Event("gitLog", "ok", 0))
          /\ pc' = "gitPush"
          /\ UNCHANGED <<output, err>>
       \/ \E gitLogOutput \in GitOutputs :
             /\ trace' = Append(trace, Event("gitLog", "err", 0))
             /\ Fail(ErrorOf(gitLogOutput))
    /\ UNCHANGED <<remote, rejectsDup, input, title, body, createErr, existingMRs,
                   pr, pipeline, repeat, quiet, existed>>

(* lines 27-54: git push, then the title and the body *)
GitPush ==
    /\ pc = "gitPush"
    /\ \/ /\ trace' = Append(trace, Event("gitPush", "ok", 0))
          /\ title' = DeriveTitle(input)
          /\ body' = DeriveBody(input)
          /\ pc' = "pushLimiter"
          /\ UNCHANGED <<output, err>>
       \/ \E gitPushOutput \in GitOutputs :
             /\ trace' = Append(trace, Event("gitPush", "err", 0))
             /\ Fail(ErrorOf(gitPushOutput))
             /\ UNCHANGED <<title, body>>
    /\ UNCHANGED <<remote, rejectsDup, input, createErr, existingMRs,
                   pr, pipeline, repeat, quiet, existed>>

(* line 83: <-pushLimiter.C *)
PushLimiter ==
    /\ pc = "pushLimiter"
    /\ trace' = Append(trace, Event("pushLimiter", "ok", 0))
    /\ pc' = "limitCreate"
    /\ UNCHANGED <<remote, rejectsDup, input, title, body, createErr, existingMRs,
                   pr, pipeline, output, err, repeat, quiet, existed>>

(* lines 84, 88 and 104: <-githubLimiter.C *)
GithubLimiter ==
    /\ pc \in {"limitCreate", "limitList", "limitUpdate"}
    /\ trace' = Append(trace, Event("githubLimiter", "ok", 0))
    /\ pc' = CASE pc = "limitCreate" -> "create"
              [] pc = "limitList"   -> "list"
              [] pc = "limitUpdate" -> "update"
    /\ UNCHANGED <<remote, rejectsDup, input, title, body, createErr, existingMRs,
                   pr, pipeline, output, err, repeat, quiet, existed>>

(* What CreateMergeRequest can fail with: the conflict when the server holds
   an open MR for the key and refuses a second one, and other failures *)
CreateErrors ==
    {ErrorOf(m) : m \in OtherMsgs}
    \cup (IF rejectsDup /\ OpenFor(pid, head, base) # {}
          THEN {ErrorOf(ConflictMsg)} ELSE {})

(* lines 85-87 and 113-117: the create call and the branch on its error *)
CreateMergeRequest ==
    /\ pc = "create"
    /\ \/ /\ Accepts(pid, head, base)
          /\ LET newMR == NewMR(pid, head, base, title, body)
             IN  /\ remote' = remote \cup {newMR}
                 /\ pr' = newMR
          /\ trace' = Append(trace, Event("create", "ok", 0))
          /\ pc' = "pipelines"
          /\ UNCHANGED <<createErr, output, err>>
       \/ \E e \in CreateErrors :
             /\ createErr' = e
             /\ trace' = Append(trace, Event("create", "err", 0))
             /\ IF IsConflict(e)
                THEN pc' = "limitList" /\ UNCHANGED <<output, err>>
                ELSE Fail(e)
             /\ UNCHANGED <<remote, pr>>
    /\ UNCHANGED <<rejectsDup, input, title, body, existingMRs, pipeline,
                   repeat, quiet, existed>>

prStatus == "opened"

(* lines 89-103: the list call, the count check and the comparison with the
   desired title and description *)
ListMRs ==
    /\ pc = "list"
    /\ \/ /\ trace' = Append(trace, Event("list", "err", 0))
          /\ Fail(ErrorOf(ServerError))
          /\ UNCHANGED <<existingMRs, pr>>
       \/ LET mrs == ListMergeRequests(head, base, prStatus)
          IN  /\ existingMRs' = mrs
              /\ trace' = Append(trace, Event("list", "ok", 0))
              /\ IF UnexpectedCount(mrs)
                 THEN Fail(ErrorOf(FoundMoreMsg)) /\ UNCHANGED pr
                 ELSE IF NeedsUpdate(mrs[1], title, body)
                 THEN /\ pr' = [mrs[1] EXCEPT !.title = title, !.description = body]
                      /\ pc' = "limitUpdate"
                      /\ UNCHANGED <<output, err>>
                 ELSE /\ pr' = mrs[1]
                      /\ pc' = "pipelines"
                      /\ UNCHANGED <<output, err>>
    /\ UNCHANGED <<remote, rejectsDup, input, title, body, createErr, pipeline,
                   repeat, quiet, existed>>

(* lines 105-110: UpdateMergeRequest(pid, existingMRs[0].ID, {TargetBranch});
   the server changes the fields the options carry and answers with the MR *)
UpdateMergeRequest ==
    /\ pc = "update"
    /\ LET id       == existingMRs[1].id
           found    == {m \in remote : m.project = pid /\ m.id = id}
       IN  \/ /\ trace' = Append(trace, Event("update", "err", id))
              /\ Fail(ErrorOf(IF found = {} THEN NotFound ELSE ServerError))
              /\ UNCHANGED <<remote, pr>>
           \/ \E m \in found :
                 LET updated == [m EXCEPT !.target = base]
                 IN  /\ remote' = (remote \ {m}) \cup {updated}
                     /\ pr' = updated
                     /\ trace' = Append(trace, Event("update", "ok", id))
                     /\ pc' = "pipelines"
                     /\ UNCHANGED <<output, err>>
    /\ UNCHANGED <<rejectsDup, input, title, body, createErr, existingMRs, pipeline,
                   repeat, quiet, existed>>

(* lines 65-77 and GetPipelineStatus: the list-pipelines call and the Output *)
ListProjectPipelines ==
    /\ pc = "pipelines"
    /\ \E failed \in BOOLEAN, got \in PipelineLists :
          /\ failed => got = <<>>
          /\ pipeline' = got
          /\ trace' = Append(trace, Event("pipelines", IF failed THEN "err" ELSE "ok", 0))
          /\ LET pipelineStatus == PipelineStatus(failed, got)
             IN  IF ~pipelineStatus.err.nil
                 THEN Fail(pipelineStatus.err)
                 ELSE /\ pc' = "done"
                      /\ output' = [Success |-> TRUE,
                                    PullRequestNumber |-> pr.id,
                                    PullRequestCombinedStatus |-> pipelineStatus.status]
                      /\ err' = NilErr
    /\ UNCHANGED <<remote, rejectsDup, input, title, body, createErr, existingMRs,
                   pr, repeat, quiet, existed>>

-----------------------------------------------------------------------------
(* Other users of the remote *)
OtherUserOpens ==
    /\ \E k \in OtherKeys :
          /\ Accepts(k.project, k.source, k.target)
          /\ remote' = remote \cup {NewMR(k.project, k.source, k.target, <<"a">>, <<>>)}
    /\ quiet' = FALSE
    /\ UNCHANGED <<rejectsDup, input, pc, title, body, createErr, existingMRs,
                   pr, pipeline, output, err, trace, repeat, existed>>

OtherUserCloses ==
    /\ \E m \in remote :
          /\ m.state = "opened"
          /\ remote' = (remote \ {m}) \cup {[m EXCEPT !.state = "closed"]}
    /\ quiet' = FALSE
    /\ UNCHANGED <<rejectsDup, input, pc, title, body, createErr, existingMRs,
                   pr, pipeline, output, err, trace, repeat, existed>>

-----------------------------------------------------------------------------
Next ==
    \/ \E in \in PushInputs : Call(in)
    \/ CallAgain
    \/ GitLog
    \/ GitPush
    \/ PushLimiter
    \/ GithubLimiter
    \/ CreateMergeRequest
    \/ ListMRs
    \/ UpdateMergeRequest
    \/ ListProjectPipelines
    \/ OtherUserOpens
    \/ OtherUserCloses

Spec == Init /\ [][Next]_vars

(* The title and the body for every Input: GitlabPush is entered with any
   Input of DeriveInputs and runs up to the reconciler *)
InitDerive ==
    /\ remote = {}
    /\ rejectsDup = TRUE
    /\ input \in DeriveInputs
    /\ pc = "gitLog"
    /\ title = <<>> /\ body = <<>>
    /\ createErr = NilErr
    /\ existingMRs = <<>>
    /\ pr = NilMR
    /\ pipeline = <<>>
    /\ output = NilOutput /\ err = NilErr
    /\ trace = <<>>
    /\ repeat = FALSE /\ quiet = TRUE /\ existed = FALSE

NextDerive == GitLog \/ GitPush

SpecDerive == InitDerive /\ [][NextDerive]_vars

-----------------------------------------------------------------------------
(* Reading the trace *)
ApiOps    == {"create", "list", "update", "pipelines"}
PermitOps == {"pushLimiter", "githubLimiter"}

Calls(op)  == {i \in 1..Len(trace) : trace[i].op = op}
Listed     == \E i \in Calls("list") : trace[i].res = "ok"
\* findOrCreateGitlabMR has returned an MR and no error
Returned   == pc = "pipelines" \/ Calls("pipelines") # {}
IsPermit(e) == e.op \in PermitOps
External   == SelectSeq(trace, LAMBDA e : ~IsPermit(e))

-----------------------------------------------------------------------------
(* C1: whenever findOrCreateGitlabMR has returned an MR without error (and no
   other user touched the remote meanwhile), the remote holds an open MR of
   the project with the requested source and target branch whose title and
   description are the desired ones. *)
C1_RemoteHasDesired ==
    (Returned /\ quiet) =>
        \E m \in OpenFor(pid, head, base) :
            m.title = title /\ m.description = body

(* C2: when an open MR for the key existed, the reconciler returned an MR, and
   it is invoked again with the same desired title and description on the
   undisturbed remote, the second invocation makes no update-MR call. *)
C2_SecondRunUpdatesNothing ==
    (repeat /\ quiet /\ existed) => Calls("update") = {}

\* at most one open MR per (project, source branch, target branch)
AtMostOneOpen ==
    \A m1, m2 \in remote :
        (/\ m1.state = "opened" /\ m2.state = "opened"
         /\ m1.project = m2.project /\ m1.source = m2.source
         /\ m1.target = m2.target) => m1 = m2

(* C3: a step of the invocation taken from a remote with at most one open MR
   per (project, source branch, target branch) leaves at most one open MR per
   key, whatever the remote answers: the reconciler itself keeps a second one
   from being created. *)
C3_ReconcilerKeepsOneOpen ==
    [][(AtMostOneOpen /\ pc' # pc) => AtMostOneOpen']_vars

(* C4: when the create call failed with an error whose message does not
   contain "merge request already exists", the invocation has returned that
   very error and no MR, and has made no list call and no update call. *)
C4_OtherCreateErrorIsReturned ==
    (~createErr.nil /\ ~Contains(createErr.msg, AlreadyExists)) =>
        /\ pc = "done"
        /\ err = createErr
        /\ ~output.Success
        /\ pr = NilMR
        /\ Calls("list") = {} /\ Calls("update") = {}

C4_Witness ==
    /\ pc = "done"
    /\ createErr = ErrorOf(<<"merge", "request", "already">>)
    /\ err = createErr

(* C5: after the conflict and a successful list call: with zero or with two
   or more MRs listed the invocation has returned the error "unexpected:
   found more than 1 MR for branch" without any update call; with exactly one
   MR listed whose title or description is not the desired one, the
   invocation is about to make, or has made, exactly one update call, for
   that MR's ID. *)
C5_CountAndUpdate ==
    Listed =>
        /\ Len(existingMRs) # 1 =>
              /\ pc = "done"
              /\ err = ErrorOf(FoundMoreMsg)
              /\ Calls("update") = {}
        /\ (/\ Len(existingMRs) = 1
            /\ \/ existingMRs[1].title # title
               \/ existingMRs[1].description # body) =>
              \/ pc \in {"limitUpdate", "update"} /\ Calls("update") = {}
              \/ /\ pc \in {"pipelines", "done"}
                 /\ Cardinality(Calls("update")) = 1
                 /\ \A i \in Calls("update") : trace[i].arg = existingMRs[1].id

C5_Witness ==
    /\ Listed
    /\ Len(existingMRs) = 1
    /\ existingMRs[1].title # title
    /\ existingMRs[1].description # body
    /\ pc = "done"
    /\ Cardinality(Calls("update")) = 1

(* C6: every API call of the invocation (create-MR, list-MRs, update-MR,
   list-pipelines) comes after a limiter permit consumed since the previous
   API call. *)
C6_PermitBeforeEveryCall ==
    \A i \in 1..Len(trace) :
        trace[i].op \in ApiOps =>
            \E j \in 1..(i - 1) :
                /\ IsPermit(trace[j])
                /\ \A k \in (j + 1)..(i - 1) : trace[k].op \notin ApiOps

(* C7: the title and description handed to the reconciler: with a newline in
   the commit message, the text before the first newline and the text after
   it, the override PRBody replacing the latter when one is given; without a
   newline, the whole message and the override, or the empty string when
   there is none. *)
C7_TitleAndDescription ==
    pc = "pushLimiter" =>
        LET msg == input.CommitMessage
            i   == Index(msg, LF)
        IN  /\ title = IF i # 0 THEN SubSeq(msg, 1, i - 1) ELSE msg
            /\ body = IF input.PRBody # <<>> THEN input.PRBody
                      ELSE IF i # 0 THEN SubSeq(msg, i + 1, Len(msg))
                      ELSE <<>>

(* C8: once the list-pipelines call has been made: when it failed, the error
   is "unexpected: cannot get pipeline status"; when it returned an empty
   list, GitlabPush returned a successful Output whose status is "No pipeline
   was found" and no error; when it returned pipelines, the status is that of
   the first one, with no error. *)
C8_PipelineStatus ==
    \A i \in Calls("pipelines") :
        /\ pc = "done"
        /\ trace[i].res = "err" =>
              ~output.Success /\ err = ErrorOf(PipelineMsg)
        /\ (trace[i].res = "ok" /\ pipeline = <<>>) =>
              /\ output.Success /\ err.nil
              /\ output.PullRequestCombinedStatus = NoPipeline
        /\ (trace[i].res = "ok" /\ pipeline # <<>>) =>
              /\ output.Success /\ err.nil
              /\ output.PullRequestCombinedStatus = pipeline[1].Status

C8_Witness ==
    /\ Calls("pipelines") # {}
    /\ pipeline = <<>>
    /\ output.Success
    /\ output.PullRequestCombinedStatus = NoPipeline

\* the order of the external operations, and what may come right before each
Rank(op) ==
    CASE op = "gitLog"    -> 1
      [] op = "gitPush"   -> 2
      [] op = "create"    -> 3
      [] op = "list"      -> 4
      [] op = "update"    -> 5
      [] op = "pipelines" -> 6

Before(op) ==
    CASE op = "gitLog"    -> {}
      [] op = "gitPush"   -> {"gitLog"}
      [] op = "create"    -> {"gitPush"}
      [] op = "list"      -> {"create"}
      [] op = "update"    -> {"list"}
      [] op = "pipelines" -> {"create", "list", "update"}

Conflicted(e) ==
    e.op = "create" /\ e.res = "err" /\ Contains(createErr.msg, AlreadyExists)

StepFailed(e) == e.res = "err" /\ ~Conflicted(e)

(* C9: the external operations of an invocation happen in the order git-log,
   git-push, create, list (only after a conflict), update (only after a
   list), list-pipelines, each at most once; a failed step (a create conflict
   is the reconciler's branch, not a failure) is the last operation and the
   invocation has returned Success = false with an error; Success = true is
   returned only when git-log, git-push, the reconciler and list-pipelines
   all succeeded. *)
C9_SequentialNoRetry ==
    LET ext == External
    IN  /\ \A i \in 1..Len(ext) :
              /\ IF i = 1 THEN ext[i].op = "gitLog"
                 ELSE /\ ext[i - 1].op \in Before(ext[i].op)
                      /\ ~StepFailed(ext[i - 1])
              /\ \A j \in (i + 1)..Len(ext) : Rank(ext[i].op) < Rank(ext[j].op)
              /\ ext[i].op = "list" => Conflicted(ext[i - 1])
              /\ StepFailed(ext[i]) =>
                    /\ i = Len(ext)
                    /\ pc = "done" /\ ~output.Success /\ ~err.nil
        /\ pc = "done" => (output.Success <=> err.nil)
        /\ (pc = "done" /\ output.Success) =>
              /\ \A i \in 1..Len(ext) : ~StepFailed(ext[i])
              /\ \A op \in {"gitLog", "gitPush", "create", "pipelines"} :
                    Cardinality(Calls(op)) = 1
              /\ Calls("list") # {} => Len(existingMRs) = 1

C9_Witness ==
    /\ pc = "done"
    /\ output.Success
    /\ Calls("update") # {}
    /\ Len(External) = 6

(* C10: on the conflict path the MR the reconciler resolves is an MR of the
   project it was invoked for, and the "found more than 1 MR" error is
   returned only when that project does not hold exactly one open MR for the
   branches: MRs of other projects play no part. *)
C10_OnlyOwnProject ==
    Listed =>
        /\ Len(existingMRs) = 1 => existingMRs[1].project = pid
        /\ err = ErrorOf(FoundMoreMsg) =>
              Cardinality({i \in 1..Len(existingMRs) :
                              existingMRs[i].project = pid}) # 1

====
